---- MODULE Spec2Model ----
(***************************************************************************)
(* Event/command dispatch core of dywypi (src/dywypi/plugin.py,            *)
(* src/dywypi/event.py): the Plugin listener/command registry, the         *)
(* PluginManager routing of events and commands, the per-plugin data view  *)
(* and the tasks the dispatch schedules on the event loop.                 *)
(*                                                                         *)
(* Text (str) is a sequence of one-character strings; the str methods the  *)
(* code calls are the operators str_* below.  A plugin object is named by  *)
(* its name (names are unique in BasePlugin._known_plugins).               *)
(***************************************************************************)
EXTENDS Integers, Sequences, FiniteSets, TLC

\* ------------------------------------------------------------------ bounds
MaxListeners == 2   \* on() registrations per plugin
MaxLen == 4         \* length of a message text drawn from Alphabet
MaxFires == 2       \* PluginManager.fire calls recorded in history
MaxLoop == 1        \* no call is made with this many tasks pending

\* ------------------------------------------------------------------- text
None == "None"

IsSpace(c) == c = " "

str_startswith(s, prefix) ==
    /\ Len(prefix) <= Len(s)
    /\ SubSeq(s, 1, Len(prefix)) = prefix

\* s[i:] with a 0-based start index
str_from(s, i) == SubSeq(s, i + 1, Len(s))

RECURSIVE str_lstrip(_)
str_lstrip(s) ==
    IF s = <<>> THEN <<>>
    ELSE IF IsSpace(Head(s)) THEN str_lstrip(Tail(s)) ELSE s

RECURSIVE str_rstrip(_)
str_rstrip(s) ==
    IF s = <<>> THEN <<>>
    ELSE IF IsSpace(s[Len(s)]) THEN str_rstrip(SubSeq(s, 1, Len(s) - 1)) ELSE s

str_strip(s) == str_rstrip(str_lstrip(s))

\* length of the leading run of non-whitespace characters
RECURSIVE WordLen(_)
WordLen(s) ==
    IF s = <<>> THEN 0
    ELSE IF IsSpace(Head(s)) THEN 0 ELSE 1 + WordLen(Tail(s))

\* s.split(None, 1): at most one split on a run of whitespace; leading
\* whitespace is skipped, the remainder keeps its trailing whitespace.
str_split1(s) ==
    LET t == str_lstrip(s) IN
    IF t = <<>> THEN <<>>
    ELSE LET n == WordLen(t)
             rest == str_lstrip(str_from(t, n))
         IN  IF rest = <<>> THEN << SubSeq(t, 1, n) >>
             ELSE << SubSeq(t, 1, n), rest >>

\* s.split(): every whitespace-separated word
RECURSIVE str_split(_)
str_split(s) ==
    LET t == str_lstrip(s) IN
    IF t = <<>> THEN <<>>
    ELSE LET n == WordLen(t) IN << SubSeq(t, 1, n) >> \o str_split(str_from(t, n))

\* 1-based position of the last occurrence of character c in s, 0 if none
RECURSIVE LastIndex(_, _)
LastIndex(s, c) ==
    IF s = <<>> THEN 0
    ELSE IF s[Len(s)] = c THEN Len(s) ELSE LastIndex(SubSeq(s, 1, Len(s) - 1), c)

\* s.rpartition(c): (head, tail) around the last c; head is empty if c is absent
str_rpartition(s, c) ==
    LET i == LastIndex(s, c) IN
    IF i = 0 THEN [head |-> <<>>, tail |-> s]
    ELSE [head |-> SubSeq(s, 1, i - 1), tail |-> str_from(s, i)]

\* ' '.join(words)
RECURSIVE str_join(_)
str_join(words) ==
    IF words = <<>> THEN <<>>
    ELSE IF Len(words) = 1 THEN words[1]
    ELSE words[1] \o <<" ">> \o str_join(Tail(words))

\* ---------------------------------------------------------- event classes
object == "object"
Event == "Event"
Message == "Message"
CommandMessage == "CommandMessage"
_DummyEvent == "_DummyEvent"
Load == "Load"

Classes == {object, Event, Message, CommandMessage, _DummyEvent, Load}

\* cls.__mro__
mro(cls) ==
    CASE cls = Event -> <<Event, object>>
      [] cls = Message -> <<Message, Event, object>>
      [] cls = CommandMessage -> <<CommandMessage, Message, Event, object>>
      [] cls = _DummyEvent -> <<_DummyEvent, object>>
      [] cls = Load -> <<Load, _DummyEvent, object>>
      [] OTHER -> <<object>>

issubclass(cls, base) == \E i \in 1..Len(mro(cls)) : mro(cls)[i] = base

isinstance(event, base) == issubclass(event.type, base)

\* An event object.  Message adds channel and message (derived from the raw
\* payload), and the code reads source and client.nick; CommandMessage adds
\* command_name, argstr and args.  Fields a class does not have are empty.
MakeEvent(type) ==
    [type |-> type, nick |-> <<>>, source |-> None, channel |-> None,
     message |-> <<>>, command_name |-> <<>>, argstr |-> <<>>, args |-> <<>>]

MakeMessage(nick, source, channel, text) ==
    [MakeEvent(Message) EXCEPT !.nick = nick, !.source = source,
                               !.channel = channel, !.message = text]

CommandMessage_init(event, command_name, argstr) ==
    [event EXCEPT !.type = CommandMessage,
                  !.command_name = command_name,
                  !.argstr = argstr,
                  !.args = str_split(str_strip(argstr))]

NoEvent == MakeEvent(None)

\* ------------------------------------------------------------------ state
VARIABLES
    known_plugins,   \* BasePlugin._known_plugins: the names of the defined plugins
    listeners,       \* Plugin.listeners, per plugin: class -> sequence of coroutines
    commands,        \* Plugin.commands, per plugin: command name -> PluginCommand
    on_calls,        \* per plugin: the on(event_cls)(f) registrations made, in order
    loaded_plugins,  \* PluginManager.loaded_plugins, in insertion order
    plugin_data,     \* PluginManager.plugin_data: plugin -> PluginData
    loop,            \* the event loop: the tasks scheduled and not yet finished
    said,            \* client.accumulated_messages: the say(target, text) calls
    call,            \* the last call made on the Plugin / PluginManager interface
    scheduled,       \* the tasks that call created (asyncio.async), in order
    futures,         \* the sequence of handles that call returned
    raised,          \* the exception that call raised, or None
    command_event,   \* the CommandMessage that call built, or NoEvent
    history,         \* the PluginManager.fire calls made so far and their outcome
    seen,            \* what the handlers observed through the data view
    handles          \* the handles of the tasks that raised, or wait for good

vars == <<known_plugins, listeners, commands, on_calls, loaded_plugins, plugin_data, loop,
          said, call, scheduled, futures, raised, command_event, history, seen,
          handles>>

registry == <<known_plugins, listeners, commands, on_calls>>
outcome == <<call, scheduled, futures, raised, command_event>>

\* --------------------------------------------------------------- dictionaries
EmptyDict == [x \in {} |-> None]

DictSet(d, k, v) == [x \in (DOMAIN d) \cup {k} |-> IF x = k THEN v ELSE d[x]]

RECURSIVE Flatten(_)
Flatten(seqs) == IF seqs = <<>> THEN <<>> ELSE Head(seqs) \o Flatten(Tail(seqs))

\* ------------------------------------------------------------------ Plugin
\* Plugin.__init__: self.listeners = defaultdict(list); self.commands = {}
NoListeners == [cls \in Classes |-> <<>>]

\* mutant of on_decorator: the loop does not stop at Event
RECURSIVE on_decorator_nobreak(_, _, _)
on_decorator_nobreak(table, classes, coro) ==
    IF classes = <<>> THEN table
    ELSE on_decorator_nobreak([table EXCEPT ![Head(classes)] = Append(@, coro)],
                              Tail(classes), coro)

\* the loop of Plugin.on's decorator over event_cls.__mro__
RECURSIVE on_decorator(_, _, _)
on_decorator(table, classes, coro) ==
    IF classes = <<>> THEN table
    ELSE IF Head(classes) = Event THEN table
    ELSE on_decorator([table EXCEPT ![Head(classes)] = Append(@, coro)],
                      Tail(classes), coro)

\* the class check of Plugin.on
on_accepts(event_cls) ==
    issubclass(event_cls, Event) \/ issubclass(event_cls, _DummyEvent)

PluginCommand(coro, is_global) == [coro |-> coro, is_global |-> is_global]

\* EventWrapper.__init__: the event, its type, and the data view bound to the
\* PluginData of one plugin
EventWrapper(event, plugin) == [event |-> event, type |-> event.type, data |-> plugin]

\* asyncio.async(coro(event)): a task of the plugin's coroutine, not yet started
Task(plugin, coro, wrapped) ==
    [plugin |-> plugin, coro |-> coro, event |-> wrapped, pc |-> 0, local |-> 0]

\* mutant of Plugin_fire: the last registered listener is scheduled first
Plugin_fire_reversed(plugin, wrapped) ==
    LET ls == listeners[plugin][wrapped.type] IN
    [i \in 1..Len(ls) |-> Task(plugin, ls[Len(ls) + 1 - i], wrapped)]

\* Plugin.fire
Plugin_fire(plugin, wrapped) ==
    LET ls == listeners[plugin][wrapped.type] IN
    [i \in 1..Len(ls) |-> Task(plugin, ls[i], wrapped)]

\* mutant of Plugin_fire_command: the is_global flags are not looked at
Plugin_fire_command_always(plugin, wrapped, is_global) ==
    IF wrapped.event.command_name \in DOMAIN commands[plugin]
    THEN << Task(plugin, commands[plugin][wrapped.event.command_name].coro, wrapped) >>
    ELSE <<>>

\* Plugin.fire_command
Plugin_fire_command(plugin, wrapped, is_global) ==
    IF wrapped.event.command_name \in DOMAIN commands[plugin]
    THEN LET command == commands[plugin][wrapped.event.command_name] IN
         IF command.is_global \/ ~is_global
         THEN << Task(plugin, command.coro, wrapped) >>
         ELSE <<>>
    ELSE <<>>

\* ----------------------------------------------------------- PluginManager
PluginData == [general |-> EmptyDict, per_channel |-> EmptyDict]

\* self.plugin_data[plugin] for every plugin in `plugins` (a defaultdict:
\* the first access creates the PluginData)
Touch(data, plugins) ==
    [p \in (DOMAIN data) \cup plugins |-> IF p \in DOMAIN data THEN data[p] ELSE PluginData]

Range(s) == {s[i] : i \in 1..Len(s)}

\* PluginManager._wrap_event (the wrapper; Touch is its effect on plugin_data)
_wrap_event(event, plugin) == EventWrapper(event, plugin)

\* PluginManager._fire_on
_fire_on(event, plugin) == Plugin_fire(plugin, _wrap_event(event, plugin))

\* mutant of _fire: the event goes to every known plugin
_fire_known(event) ==
    LET all == CHOOSE q \in [1..Cardinality(known_plugins) -> known_plugins] :
                   Range(q) = known_plugins
    IN  Flatten([i \in 1..Len(all) |-> _fire_on(event, all[i])])

\* PluginManager._fire
_fire(event) ==
    Flatten([i \in 1..Len(loaded_plugins) |-> _fire_on(event, loaded_plugins[i])])

\* PluginManager._fire_global_command
_fire_global_command(cev) ==
    Flatten([i \in 1..Len(loaded_plugins) |->
        Plugin_fire_command(loaded_plugins[i],
                            _wrap_event(cev, loaded_plugins[i]), TRUE)])

\* PluginManager._fire_plugin_command, for a loaded plugin
_fire_plugin_command(plugin_name, cev) ==
    Plugin_fire_command(plugin_name, _wrap_event(cev, plugin_name), FALSE)

Separators == {":", ",", " "}

\* event.message.startswith(nick) and event.message[len(nick)] in ':, '
\* raises IndexError when the index is past the end of the text
is_command_raises(event) ==
    /\ str_startswith(event.message, event.nick)
    /\ Len(event.message) <= Len(event.nick)

is_command_of(event) ==
    /\ str_startswith(event.message, event.nick)
    /\ Len(event.message) > Len(event.nick)
    /\ event.message[Len(event.nick) + 1] \in Separators

\* mutant of command_text: the separator after the nickname is left in
command_text_keeps_separator(event) ==
    IF is_command_of(event)
    THEN str_from(event.message, Len(event.nick))
    ELSE event.message

\* mutant of reads_as_command: every message is read as a command
reads_as_command_always(event) == TRUE

\* is_command or not is_public: the message is addressed to the bot, or private
reads_as_command(event) == is_command_of(event) \/ ~(event.channel # None)

\* the text the command is parsed from
command_text(event) ==
    IF is_command_of(event)
    THEN str_from(event.message, Len(event.nick) + 1)
    ELSE event.message

\* command_name, argstr = message.split(None, 1), or on ValueError
\* command_name, argstr = message.strip(), ''
split_command(message) ==
    LET parts == str_split1(message) IN
    IF Len(parts) = 2
    THEN [command_name |-> parts[1], argstr |-> parts[2]]
    ELSE [command_name |-> str_strip(message), argstr |-> <<>>]

\* plugin_name, _, command_name = command_name.rpartition('.') and the
\* CommandMessage built from it
build_command(event) ==
    LET sc == split_command(command_text(event))
        rp == str_rpartition(sc.command_name, ".")
    IN  [plugin_name |-> rp.head,
         command_event |-> CommandMessage_init(event, rp.tail, sc.argstr)]

\* PluginManager.fire: what the call schedules, returns and raises
PluginManager_fire(event) ==
    LET first == _fire(event)
        done(tasks, cev) ==
            [scheduled |-> tasks, futures |-> tasks, raised |-> None,
             command_event |-> cev]
        fail(tasks, cev, exc) ==
            [scheduled |-> tasks, futures |-> <<>>, raised |-> exc,
             command_event |-> cev]
    IN
    IF ~isinstance(event, Message) THEN done(first, NoEvent)
    ELSE IF is_command_raises(event) THEN fail(first, NoEvent, "IndexError")
    ELSE IF reads_as_command(event)
         THEN LET bc == build_command(event) IN
              IF bc.plugin_name # <<>>
              THEN IF bc.plugin_name \in Range(loaded_plugins)
                   THEN done(first \o _fire_plugin_command(bc.plugin_name,
                                                          bc.command_event),
                             bc.command_event)
                   ELSE fail(first, bc.command_event, "KeyError")
              ELSE done(first \o _fire_global_command(bc.command_event),
                        bc.command_event)
         ELSE done(first \o _fire(event), NoEvent)

\* ------------------------------------------------------- the data view
Instances(data) ==
    UNION { UNION { {data[p].per_channel[ch][c] : c \in DOMAIN data[p].per_channel[ch]}
                    : ch \in DOMAIN data[p].per_channel }
            : p \in DOMAIN data }

\* cls(channel): a new object, told apart from every object made before
NewInstance(data, cls, channel) ==
    [id |-> Cardinality(Instances(data)) + 1, cls |-> cls, channel |-> channel]

\* mutant of per_channel_store: the instance is made on every call
per_channel_store_always_new(data, wrapped, cls) ==
    LET channel == wrapped.event.channel
        d == data[wrapped.data].per_channel
        slots == IF channel \in DOMAIN d THEN d[channel] ELSE EmptyDict
    IN  [data EXCEPT ![wrapped.data].per_channel =
            DictSet(d, channel, DictSet(slots, cls,
                [id |-> Cardinality(Instances(data)) + 1, cls |-> cls,
                 channel |-> channel]))]

\* PluginDataWrapper.per_channel: plugin_data after the call.  d[channel] of
\* the defaultdict creates the channel's dict; the instance is made once.
per_channel_store(data, wrapped, cls) ==
    LET channel == wrapped.event.channel
        d == data[wrapped.data].per_channel
        slots == IF channel \in DOMAIN d THEN d[channel] ELSE EmptyDict
    IN  IF cls \in DOMAIN slots
        THEN [data EXCEPT ![wrapped.data].per_channel = DictSet(d, channel, slots)]
        ELSE [data EXCEPT ![wrapped.data].per_channel =
                 DictSet(d, channel, DictSet(slots, cls, NewInstance(data, cls, channel)))]

\* PluginDataWrapper.per_channel: the instance it returns
per_channel(data, wrapped, cls) ==
    per_channel_store(data, wrapped, cls)[wrapped.data]
        .per_channel[wrapped.event.channel][cls]

\* mutant of PluginDataWrapper___setitem__: one general dict for all plugins
PluginDataWrapper___setitem___shared(data, wrapped, key, value) ==
    [p \in DOMAIN data |-> [data[p] EXCEPT !.general = DictSet(@, key, value)]]

\* mutant of PluginDataWrapper___setitem__: a key that is there keeps its value
PluginDataWrapper___setitem___lost(data, wrapped, key, value) ==
    IF key \in DOMAIN data[wrapped.data].general THEN data
    ELSE [data EXCEPT ![wrapped.data].general = DictSet(@, key, value)]

\* PluginDataWrapper.__setitem__
PluginDataWrapper___setitem__(data, wrapped, key, value) ==
    [data EXCEPT ![wrapped.data].general = DictSet(@, key, value)]

\* self._plugin_data.general is there (AttributeError when it is not)
has_general(data, wrapped) == "general" \in DOMAIN data[wrapped.data]

\* PluginDataWrapper.__delitem__: del self._plugin_data.general, whatever
\* the key
PluginDataWrapper___delitem__(data, wrapped, key) ==
    [data EXCEPT ![wrapped.data] =
        [a \in (DOMAIN @) \ {"general"} |-> @[a]]]

\* PluginDataWrapper.__getitem__ (KeyError when has_key is false)
has_key(data, wrapped, key) ==
    has_general(data, wrapped) /\ key \in DOMAIN data[wrapped.data].general

PluginDataWrapper___getitem__(data, wrapped, key) == data[wrapped.data].general[key]

\* mutant of reply_to: the reply always goes to the sender
reply_to_source(wrapped) == wrapped.event.source

\* EventWrapper.say: the target of the reply
reply_to(wrapped) ==
    IF wrapped.event.channel # None
    THEN wrapped.event.channel
    ELSE wrapped.event.source

\* --------------------------------------------------------------- handlers
\* The coroutines plugins register.  "f" and "g" have an empty body; "echo"
\* replies with its joined argument words (plugins/echo.py); "touch" asks for
\* its per-channel instance of class "T"; "put" stores what it handled under
\* the key "k" and "get" reads that key; "raise" raises an exception and
\* "hang" waits for something that never comes; "bump" adds one to the
\* count under the key "n" with no await between its read and its write,
\* and "slow" reads the count, awaits a reply, then writes the count it
\* read plus one; "del" does del data["k"].
Slot == "T"
Key == "k"
CountKey == "n"

\* data[CountKey] if the key is there, else 0
read_count(data, wrapped) ==
    IF has_key(data, wrapped, CountKey)
    THEN PluginDataWrapper___getitem__(data, wrapped, CountKey)
    ELSE 0

Remove(s, i) == SubSeq(s, 1, i - 1) \o SubSeq(s, i + 1, Len(s))

\* The part of the state a running task reads and writes.
Running ==
    [loop |-> loop, said |-> said, plugin_data |-> plugin_data, seen |-> seen,
     handles |-> handles]

\* mutant of wait_forever: the loop waits with the task, which stays first
wait_forever_in_loop(queue, t) == <<t>> \o queue

\* a task waits for something that never comes: each handler is a task of
\* its own (asyncio.async), so the loop goes on with the tasks in `queue`
wait_forever(queue, t) == queue

\* one step of task i of st.loop: the coroutine runs up to its next
\* suspension, where the task goes to the back of the ready queue, or to its
\* end, where the task leaves the loop
TaskStep(st, i) ==
    LET t == st.loop[i]
        w == t.event
        rest == Remove(st.loop, i)
    IN
    CASE t.coro = "echo" /\ t.pc = 0 /\ w.type = CommandMessage ->
           \* yield from event.reply(' '.join(event.args)): say() is called
           \* and the task is suspended in it
           [st EXCEPT !.said = Append(@, [target |-> reply_to(w),
                                          text |-> str_join(w.event.args)]),
                      !.loop = Append(rest, [t EXCEPT !.pc = 1])]
      [] t.coro = "touch" /\ isinstance(w.event, Message) ->
           [st EXCEPT !.plugin_data = per_channel_store(@, w, Slot),
                      !.seen = @ \cup {[plugin |-> t.plugin, op |-> "per_channel",
                                        channel |-> w.event.channel,
                                        value |-> per_channel(st.plugin_data, w, Slot)]},
                      !.loop = rest]
      [] t.coro = "put" /\ has_general(st.plugin_data, w) ->
           [st EXCEPT !.plugin_data = PluginDataWrapper___setitem__(@, w, Key,
                                          [plugin |-> t.plugin, text |-> w.event.message]),
                      !.loop = rest]
      [] t.coro = "get" /\ has_key(st.plugin_data, w, Key) ->
           [st EXCEPT !.seen = @ \cup {[plugin |-> t.plugin, op |-> "getitem",
                                        channel |-> w.event.channel,
                                        value |-> PluginDataWrapper___getitem__(
                                                      st.plugin_data, w, Key)]},
                      !.loop = rest]
      [] t.coro = "del" /\ has_general(st.plugin_data, w) ->
           [st EXCEPT !.plugin_data = PluginDataWrapper___delitem__(@, w, Key),
                      !.loop = rest]
      [] t.coro = "bump" /\ has_general(st.plugin_data, w) ->
           [st EXCEPT !.plugin_data = PluginDataWrapper___setitem__(@, w, CountKey,
                                          read_count(st.plugin_data, w) + 1),
                      !.loop = rest]
      [] t.coro = "slow" /\ t.pc = 0 /\ has_general(st.plugin_data, w) ->
           \* the count is read, then say() is called and the task is
           \* suspended in it
           [st EXCEPT !.said = Append(@, [target |-> reply_to(w), text |-> <<>>]),
                      !.loop = Append(rest, [t EXCEPT !.pc = 1,
                                   !.local = read_count(st.plugin_data, w)])]
      [] t.coro = "slow" /\ t.pc = 1 /\ has_general(st.plugin_data, w) ->
           [st EXCEPT !.plugin_data = PluginDataWrapper___setitem__(@, w, CountKey,
                                          t.local + 1),
                      !.loop = rest]
      [] t.coro = "raise" ->
           \* the exception ends the task and is kept in its handle
           [st EXCEPT !.handles = @ \cup {[task |-> t, state |-> "exception"]},
                      !.loop = rest]
      [] t.coro = "hang" ->
           [st EXCEPT !.handles = @ \cup {[task |-> t, state |-> "pending"]},
                      !.loop = wait_forever(rest, t)]
      [] OTHER ->
           \* the coroutine returns, or raises into its own task
           [st EXCEPT !.loop = rest]

Resume(st) ==
    /\ loop' = st.loop
    /\ said' = st.said
    /\ plugin_data' = st.plugin_data
    /\ seen' = st.seen
    /\ handles' = st.handles
    /\ UNCHANGED <<registry, loaded_plugins, outcome, history>>

\* the loop runs one step of a ready task
RunTask(i) ==
    /\ i \in 1..Len(loop)
    /\ Resume(TaskStep(Running, i))

\* the loop runs its ready tasks, first scheduled first, until none is left
RECURSIVE RunAll(_)
RunAll(st) == IF st.loop = <<>> THEN st ELSE RunAll(TaskStep(st, 1))

run_until_idle ==
    /\ loop # <<>>
    /\ Resume(RunAll(Running))

\* ------------------------------------------------------------- operations
\* the last call made: what was called, with what, and a mark that changes
\* with every call, so that a call repeated is told from no call
Call(op, plugin, event, is_global) ==
    [op |-> op, plugin |-> plugin, event |-> event, is_global |-> is_global,
     tick |-> 1 - call.tick]

NoCall ==
    [op |-> None, plugin |-> <<>>, event |-> NoEvent, is_global |-> FALSE,
     tick |-> 0]

\* this step is a call (not a step of the loop)
CallStep == call'.tick # call.tick

\* a call that schedules nothing and builds no command event
Returns(op, plugin, exc) ==
    /\ Len(loop) < MaxLoop
    /\ call' = Call(op, plugin, NoEvent, FALSE)
    /\ scheduled' = <<>>
    /\ futures' = <<>>
    /\ raised' = exc
    /\ command_event' = NoEvent

\* Plugin(name): Plugin.__init__ and BasePlugin.__init__
Plugin(name) ==
    /\ IF name \in known_plugins
       THEN /\ Returns("Plugin", name, "NameError")
            /\ UNCHANGED registry
       ELSE /\ Returns("Plugin", name, None)
            /\ known_plugins' = known_plugins \cup {name}
            /\ listeners' = DictSet(listeners, name, NoListeners)
            /\ commands' = DictSet(commands, name, EmptyDict)
            /\ on_calls' = DictSet(on_calls, name, <<>>)
    /\ UNCHANGED <<loaded_plugins, plugin_data, loop, said, history, seen, handles>>

\* Plugin.on(event_cls)(f)
on(plugin, event_cls, f) ==
    /\ plugin \in known_plugins
    /\ Len(on_calls[plugin]) < MaxListeners
    /\ IF on_accepts(event_cls)
       THEN /\ Returns("on", plugin, None)
            /\ listeners' = [listeners EXCEPT
                   ![plugin] = on_decorator(@, mro(event_cls), f)]
            /\ on_calls' = [on_calls EXCEPT
                   ![plugin] = Append(@, [event_cls |-> event_cls, coro |-> f])]
       ELSE /\ Returns("on", plugin, "TypeError")
            /\ UNCHANGED <<listeners, on_calls>>
    /\ UNCHANGED <<known_plugins, commands, loaded_plugins, plugin_data, loop,
                   said, history, seen, handles>>

\* Plugin.command(command_name, is_global=is_global)(f)
command(plugin, command_name, f, is_global) ==
    /\ plugin \in known_plugins
    /\ Returns("command", plugin, None)
    /\ commands' = [commands EXCEPT
           ![plugin] = DictSet(@, command_name, PluginCommand(f, is_global))]
    /\ UNCHANGED <<known_plugins, listeners, on_calls, loaded_plugins,
                   plugin_data, loop, said, history, seen, handles>>

\* PluginManager.load
load(plugin_name) ==
    /\ IF plugin_name \in Range(loaded_plugins)
       THEN /\ Returns("load", plugin_name, None)
            /\ UNCHANGED loaded_plugins
       ELSE IF plugin_name \notin known_plugins
       THEN /\ Returns("load", plugin_name, "KeyError")
            /\ UNCHANGED loaded_plugins
       ELSE /\ Returns("load", plugin_name, None)
            /\ loaded_plugins' = Append(loaded_plugins, plugin_name)
    /\ UNCHANGED <<registry, plugin_data, loop, said, history, seen, handles>>

\* mutant of load_each: only the first known plugin is loaded
load_each_first(loaded, order) ==
    IF order = <<>> \/ Head(order) \in Range(loaded) THEN loaded
    ELSE Append(loaded, Head(order))

\* PluginManager.loadall, the known plugins taken in the order `order`
RECURSIVE load_each(_, _)
load_each(loaded, order) ==
    IF order = <<>> THEN loaded
    ELSE load_each(IF Head(order) \in Range(loaded) THEN loaded
                   ELSE Append(loaded, Head(order)), Tail(order))

loadall(order) ==
    /\ Range(order) = known_plugins
    /\ Len(order) = Cardinality(known_plugins)
    /\ Returns("loadall", <<>>, None)
    /\ loaded_plugins' = load_each(loaded_plugins, order)
    /\ UNCHANGED <<registry, plugin_data, loop, said, history, seen, handles>>

\* PluginManager.fire(event), called by the transport
fire(event) ==
    LET r == PluginManager_fire(event) IN
    /\ Len(loop) < MaxLoop
    /\ call' = Call("PluginManager.fire", <<>>, event, FALSE)
    /\ scheduled' = r.scheduled
    /\ futures' = r.futures
    /\ raised' = r.raised
    /\ command_event' = r.command_event
    /\ loop' = loop \o r.scheduled
    /\ plugin_data' = Touch(plugin_data, Range(loaded_plugins))
    /\ UNCHANGED <<registry, loaded_plugins, said, seen, handles>>

\* the same call, entered in the history
fire_recorded(event) ==
    /\ Len(history) < MaxFires
    /\ fire(event)
    /\ history' = Append(history, [event |-> event, raised |-> raised',
                                   command_event |-> command_event',
                                   scheduled |-> scheduled'])

\* plugin.fire(self._wrap_event(event, plugin)) on one plugin
fire_on(event, plugin) ==
    /\ plugin \in known_plugins
    /\ Len(loop) < MaxLoop
    /\ call' = Call("Plugin.fire", plugin, event, FALSE)
    /\ scheduled' = _fire_on(event, plugin)
    /\ futures' = scheduled'
    /\ raised' = None
    /\ command_event' = NoEvent
    /\ loop' = loop \o scheduled'
    /\ plugin_data' = Touch(plugin_data, {plugin})
    /\ UNCHANGED <<registry, loaded_plugins, said, history, seen, handles>>

\* plugin.fire_command(self._wrap_event(command_event, plugin), is_global=...)
fire_command_on(cev, plugin, is_global) ==
    /\ plugin \in known_plugins
    /\ Len(loop) < MaxLoop
    /\ call' = Call("Plugin.fire_command", plugin, cev, is_global)
    /\ scheduled' = Plugin_fire_command(plugin, _wrap_event(cev, plugin), is_global)
    /\ futures' = scheduled'
    /\ raised' = None
    /\ command_event' = NoEvent
    /\ loop' = loop \o scheduled'
    /\ plugin_data' = Touch(plugin_data, {plugin})
    /\ UNCHANGED <<registry, loaded_plugins, said, history, seen, handles>>

\* ------------------------------------------------------------ first state
\* no plugin module imported, PluginManager() just constructed, loop idle
Init ==
    /\ known_plugins = {}
    /\ listeners = EmptyDict
    /\ commands = EmptyDict
    /\ on_calls = EmptyDict
    /\ loaded_plugins = <<>>
    /\ plugin_data = EmptyDict
    /\ loop = <<>>
    /\ said = <<>>
    /\ call = NoCall
    /\ scheduled = <<>>
    /\ futures = <<>>
    /\ raised = None
    /\ command_event = NoEvent
    /\ history = <<>>
    /\ seen = {}
    /\ handles = {}

\* ------------------------------------------------------------------ inputs
ECHO == <<"e", "c", "h", "o">>
MISC == <<"m", "i", "s", "c">>
SHOUT == <<"s", "h", "o", "u", "t">>

\* --------------------------------------------- the registry of one plugin
\* Specification SpecPlugin: one plugin is defined, listeners and commands
\* are registered on it, and Plugin.fire / Plugin.fire_command are called
\* with events of every class.
EventClasses == {Event, Message, CommandMessage, _DummyEvent, Load}

PluginEvents == {MakeEvent(c) : c \in EventClasses}

PluginCommandEvents ==
    {CommandMessage_init(MakeEvent(Message), n, <<>>) : n \in {ECHO, SHOUT}}

NextPlugin ==
    \/ Plugin(ECHO)
    \/ \E c \in Classes, f \in {"f", "g"} : on(ECHO, c, f)
    \/ \E g \in BOOLEAN : command(ECHO, SHOUT, "f", g)
    \/ \E e \in PluginEvents : fire_on(e, ECHO)
    \/ \E e \in PluginCommandEvents, g \in BOOLEAN : fire_command_on(e, ECHO, g)
    \/ \E i \in 1..Len(loop) : RunTask(i)

SpecPlugin == Init /\ [][NextPlugin]_vars

\* ---------------------------------------------------- claims on the registry
\* how many of the tasks the last call created run coroutine h of `plugin`
Count(tasks, plugin, h) ==
    Cardinality({i \in 1..Len(tasks) : tasks[i].plugin = plugin /\ tasks[i].coro = h})

\* h was registered on `plugin` exactly once, and that with on(V)
RegisteredOnce(plugin, h, V) ==
    /\ plugin \in known_plugins
    /\ \E i \in 1..Len(on_calls[plugin]) :
          /\ on_calls[plugin][i] = [event_cls |-> V, coro |-> h]
          /\ \A j \in 1..Len(on_calls[plugin]) :
                on_calls[plugin][j].coro = h => j = i

ProperSubclass(S, T) == S # T /\ issubclass(S, T)

Unrelated(A, B) == ~issubclass(A, B) /\ ~issubclass(B, A)

\* the last call was Plugin.fire on `plugin` with an event of class V
FiredOn(plugin, V) ==
    /\ call.op = "Plugin.fire"
    /\ call.plugin = plugin
    /\ call.event.type = V

\* C1 as stated: for every variant V, the root Event included, a handler
\* registered once with on(V) is scheduled exactly once by Plugin.fire of an
\* event of class V, and not at all by an event of an unrelated class.
C1_AsStated ==
    \A p \in known_plugins, h \in {"f", "g"}, V \in {Event, Message, CommandMessage, Load} :
        RegisteredOnce(p, h, V) =>
            /\ FiredOn(p, V) => Count(scheduled, p, h) = 1
            /\ \A U \in EventClasses :
                  FiredOn(p, U) /\ Unrelated(U, V) => Count(scheduled, p, h) = 0

\* C1, amended: the same for every variant V other than the root Event
\* (Message, CommandMessage, Load); a handler registered only with
\* on(Event) is stored under no class and no Plugin.fire schedules it.
C1_ExactVariant ==
    \A p \in known_plugins, h \in {"f", "g"} :
        /\ \A V \in {Message, CommandMessage, Load} :
              RegisteredOnce(p, h, V) =>
                  /\ FiredOn(p, V) => Count(scheduled, p, h) = 1
                  /\ \A U \in EventClasses :
                        FiredOn(p, U) /\ Unrelated(U, V) => Count(scheduled, p, h) = 0
        /\ RegisteredOnce(p, h, Event) /\ call.op = "Plugin.fire" /\ call.plugin = p
              => Count(scheduled, p, h) = 0

C1_Witness ==
    /\ RegisteredOnce(ECHO, "f", CommandMessage)
    /\ RegisteredOnce(ECHO, "g", Event)
    /\ FiredOn(ECHO, CommandMessage)
    /\ Count(scheduled, ECHO, "f") = 1
    /\ Count(loop, ECHO, "f") = 1

\* C2 as stated (ancestor propagation): with S a proper subclass of T, a
\* handler registered once with on(T) is scheduled when an event of class S
\* is fired, and a handler registered once with on(S) is not scheduled when
\* an event of class T is fired.
C2_AncestorPropagation ==
    \A p \in known_plugins, h \in {"f", "g"}, S \in EventClasses, T \in EventClasses :
        ProperSubclass(S, T) =>
            /\ RegisteredOnce(p, h, T) /\ FiredOn(p, S) => Count(scheduled, p, h) >= 1
            /\ RegisteredOnce(p, h, S) /\ FiredOn(p, T) => Count(scheduled, p, h) = 0

\* C6: Plugin.fire_command of a registered command schedules it exactly once,
\* except that a command registered with is_global=False is not scheduled
\* when the call is made with is_global=True (the global broadcast path).
C6_LocalOnly ==
    \A p \in known_plugins :
        call.op = "Plugin.fire_command" /\ call.plugin = p
        /\ call.event.command_name \in DOMAIN commands[p]
        => LET c == commands[p][call.event.command_name] IN
           /\ ~c.is_global /\ call.is_global => scheduled = <<>>
           /\ ~c.is_global /\ ~call.is_global =>
                 Len(scheduled) = 1 /\ Count(scheduled, p, c.coro) = 1
           /\ c.is_global =>
                 Len(scheduled) = 1 /\ Count(scheduled, p, c.coro) = 1
           /\ futures = scheduled

C6_Witness ==
    /\ call.op = "Plugin.fire_command"
    /\ call.plugin = ECHO
    /\ ~call.is_global
    /\ call.event.command_name = SHOUT
    /\ SHOUT \in DOMAIN commands[ECHO]
    /\ ~commands[ECHO][SHOUT].is_global
    /\ Len(scheduled) = 1

\* ------------------------------------------------- dispatch by the manager
\* Specification Spec: two plugins are defined, register listeners and a
\* "shout" command, are loaded, and the transport fires events: a generic
\* event, private and public messages, addressed, plain, plugin-qualified.
NICK == <<"d", "y", "w", "y", "p", "i">>

Private(text) == MakeMessage(NICK, "nobody", None, text)
Public(text) == MakeMessage(NICK, "nobody", "#chan", text)

\* "shout hi", "dywypi: shout hi", "echo.shout hi", "dywypi,misc.shout",
\* ".shout hi", "dywypi"
TextShout == <<"s", "h", "o", "u", "t", " ", "h", "i">>
TextAddressedShout == <<"d", "y", "w", "y", "p", "i", ":", " ", "s", "h", "o", "u", "t", " ", "h", "i">>
TextEchoShout == <<"e", "c", "h", "o", ".", "s", "h", "o", "u", "t", " ", "h", "i">>
TextAddressedMiscShout == <<"d", "y", "w", "y", "p", "i", ",", "m", "i", "s", "c", ".", "s", "h", "o", "u", "t">>
TextDotShout == <<".", "s", "h", "o", "u", "t", " ", "h", "i">>

ManagerEvents ==
    { MakeEvent(Event),
      Private(TextShout), Public(TextShout), Public(TextAddressedShout),
      Private(TextEchoShout), Public(TextAddressedMiscShout),
      Private(TextDotShout), Public(NICK) }

PluginNames == {ECHO, MISC}

Orders == {<<ECHO, MISC>>, <<MISC, ECHO>>, <<ECHO>>, <<MISC>>, <<>>}

Next ==
    \/ Plugin(ECHO)
    \/ \E c \in {Message, Load} : on(ECHO, c, "f")
    \/ \E g \in BOOLEAN : command(ECHO, SHOUT, "g", g)
    \/ Plugin(MISC)
    \/ on(MISC, Message, "f")
    \/ command(MISC, SHOUT, "g", TRUE)
    \/ \E p \in PluginNames : load(p)
    \/ \E o \in Orders : loadall(o)
    \/ \E e \in ManagerEvents : fire(e) /\ UNCHANGED history
    \/ run_until_idle

Spec == Init /\ [][Next]_vars

\* --------------------------------------------------- claims on the dispatch
ManagerFired == call.op = "PluginManager.fire"

\* the tasks of the last call that run a listener of `plugin` on the event
\* that was fired (a command task runs on the CommandMessage built from it)
ListenerTasks(plugin) ==
    {j \in 1..Len(scheduled) :
        scheduled[j].plugin = plugin /\ scheduled[j].event.event = call.event}

\* the tasks of the last call that run a command
CommandTasks ==
    {j \in 1..Len(scheduled) : scheduled[j].event.type = CommandMessage}

\* C3 as stated: one PluginManager.fire schedules each listener registered
\* under the event's class exactly once, on every loaded plugin, whatever
\* the event (a plain public message included).
C3_ListenersOnce ==
    ManagerFired =>
        \A p \in Range(loaded_plugins) :
            Cardinality(ListenerTasks(p)) = Len(listeners[p][call.event.type])

\* the message is addressed to the bot or private: it is read as a command
ReadAsCommand(event) ==
    /\ isinstance(event, Message)
    /\ ~is_command_raises(event)
    /\ is_command_of(event) \/ event.channel = None

\* the first word of the command line
CommandWord(event) == split_command(command_text(event)).command_name

\* C5 as stated: when the command word contains a '.', only the loaded
\* plugin named by the text before the last '.' has a command scheduled.
C5_QualifiedOnly ==
    ManagerFired /\ ReadAsCommand(call.event)
    /\ LastIndex(CommandWord(call.event), ".") > 0
    => \A j \in CommandTasks :
          scheduled[j].plugin = str_rpartition(CommandWord(call.event), ".").head

\* ------------------------------------------------------- command parsing
\* Specification SpecText: a text L of up to MaxLen characters is sent as a
\* private message, then as a public message addressed to the bot with each
\* separator: nick, separator, space, L.  The nickname is one character.
Alphabet == {"d", ":", ",", " ", ".", "e"}
D == <<"d">>

Lines == UNION {[1..n -> Alphabet] : n \in 0..MaxLen}

PrivateLine(L) == MakeMessage(D, "nobody", None, L)
AddressedLine(c, L) == MakeMessage(D, "nobody", "#chan", D \o <<c, " ">> \o L)

NextText ==
    \/ \E L \in Lines : history = <<>> /\ fire_recorded(PrivateLine(L))
    \/ \E c \in Separators :
          /\ Len(history) = 1
          /\ fire_recorded(AddressedLine(c, history[1].event.message))

SpecText == Init /\ [][NextText]_vars

\* both messages of the scenario were fired
BothFired == Len(history) = 2

\* L is itself addressed to the bot: the nickname, then a separator
Addressed(L) ==
    /\ str_startswith(L, D)
    /\ Len(L) > Len(D)
    /\ L[Len(D) + 1] \in Separators

\* L is a command line: a command name, then maybe whitespace and arguments
IsCommandLine(L) == L # <<>> /\ ~IsSpace(L[1])

SameCommand(a, b) ==
    /\ a.command_event.type = CommandMessage
    /\ b.command_event.type = CommandMessage
    /\ a.command_event.command_name = b.command_event.command_name
    /\ a.command_event.args = b.command_event.args

\* the command a text is read as, by its words: the name is the first word
\* after its last '.', the args are the other words
ReadAs(h, text) ==
    LET ws == str_split(text) IN
    /\ h.raised # "IndexError"
    /\ h.command_event.type = CommandMessage
    /\ h.command_event.command_name =
          IF ws = <<>> THEN <<>> ELSE str_rpartition(ws[1], ".").tail
    /\ h.command_event.args = IF ws = <<>> THEN <<>> ELSE Tail(ws)

\* C4 as stated: for every command line L and separator, the private
\* message L and the public message nick + separator + ' ' + L build a
\* command event with the same command name and the same args.
C4_AsStated ==
    BothFired /\ IsCommandLine(history[1].event.message)
    => SameCommand(history[1], history[2])

\* C4, amended: the public message always builds the command of L.  The
\* private message builds the same command when L is not itself addressed
\* to the bot; when L is the nickname and a separator followed by R it
\* builds the command of R; when L is exactly the nickname it raises
\* IndexError and builds no command.
C4_SameUnlessAddressed ==
    BothFired =>
        LET L == history[1].event.message
            private == history[1]
            public == history[2]
        IN  /\ ReadAs(public, L)
            /\ L = D => private.raised = "IndexError" /\ private.command_event = NoEvent
            /\ Addressed(L) => ReadAs(private, str_from(L, Len(D) + 1))
            /\ L # D /\ ~Addressed(L) =>
                  /\ ReadAs(private, L)
                  /\ SameCommand(private, public)
                  /\ private.command_event.argstr = public.command_event.argstr

\* "e e" sent privately and as "d: e e"
C4_Witness ==
    /\ BothFired
    /\ history[1].event.message = <<"e", " ", "e">>
    /\ history[2].event.message = <<"d", ":", " ", "e", " ", "e">>
    /\ history[1].command_event.command_name = <<"e">>
    /\ history[2].command_event.args = << <<"e">> >>
    /\ SameCommand(history[1], history[2])

\* ------------------------------------------------- replies to the echo command
\* Specification SpecEcho: the plugin echo registers the global command echo,
\* whose coroutine replies once with its joined argument words, and maybe a
\* listener on Message; the transport fires messages and the loop runs the
\* tasks in any order.
TextEchoFoo == <<"e", "c", "h", "o", " ", "f", "o", "o">>
TextAddressedEchoFooBar == <<"d", "y", "w", "y", "p", "i", ":", " ", "e", "c", "h", "o", " ", "f", "o", "o", " ", "b", "a", "r">>
TextAddressedEchoFoo == <<"d", "y", "w", "y", "p", "i", ":", " ", "e", "c", "h", "o", " ", "f", "o", "o">>
TextAddressedEcho == <<"d", "y", "w", "y", "p", "i", ",", " ", "e", "c", "h", "o">>

EchoEvents ==
    { Private(TextEchoFoo), Public(TextAddressedEchoFooBar),
      Private(TextAddressedEchoFoo), Public(TextEchoFoo),
      Public(TextAddressedEcho) }

NextEcho ==
    \/ Plugin(ECHO)
    \/ command(ECHO, ECHO, "echo", TRUE)
    \/ on_calls = [p \in {ECHO} |-> <<>>] /\ on(ECHO, Message, "f")
    \/ load(ECHO)
    \/ \E e \in EchoEvents : fire_recorded(e)
    \/ \E i \in 1..Len(loop) : RunTask(i)

SpecEcho == Init /\ [][NextEcho]_vars

\* ------------------------------------------------------- claims on replies
Foo == <<"f", "o", "o">>
FooBar == <<"f", "o", "o", " ", "b", "a", "r">>

Reply(target, text) == [target |-> target, text |-> text]

\* the reply each message that resolves to the echo command is answered with:
\* the joined argument words, to the sender of a private message and to the
\* channel of an addressed public one
ExpectedReply(event) ==
    CASE event = Private(TextEchoFoo) -> Reply("nobody", Foo)
      [] event = Private(TextAddressedEchoFoo) -> Reply("nobody", Foo)
      [] event = Public(TextAddressedEchoFooBar) -> Reply("#chan", FooBar)
      [] event = Public(TextAddressedEcho) -> Reply("#chan", <<>>)

Resolving ==
    { Private(TextEchoFoo), Private(TextAddressedEchoFoo),
      Public(TextAddressedEchoFooBar), Public(TextAddressedEcho) }

EchoLoaded ==
    /\ ECHO \in Range(loaded_plugins)
    /\ ECHO \in DOMAIN commands[ECHO]
    /\ commands[ECHO][ECHO] = PluginCommand("echo", TRUE)

EchoTasks(tasks) == {j \in 1..Len(tasks) : tasks[j].coro = "echo"}

\* the fires entered in the history that scheduled the echo command
Answered == {i \in 1..Len(history) : EchoTasks(history[i].scheduled) # {}}

\* C9: with the echo plugin loaded, a fired message that resolves to its
\* command schedules one task of it, and once the scheduled tasks have run
\* the client has received exactly one say(target, text) for each such
\* message: text the joined args, target the sender for a private message
\* and the channel for an addressed public one.
C9_EchoReplies ==
    /\ ManagerFired /\ call.event \in Resolving /\ EchoLoaded
          => Cardinality(EchoTasks(scheduled)) = 1 /\ raised = None
    /\ \A i \in Answered :
          /\ history[i].event \in Resolving
          /\ Cardinality(EchoTasks(history[i].scheduled)) = 1
    /\ loop = <<>> =>
          /\ Len(said) = Cardinality(Answered)
          /\ \A r \in Range(said) \cup {ExpectedReply(history[i].event) : i \in Answered} :
                Cardinality({j \in 1..Len(said) : said[j] = r})
                  = Cardinality({i \in Answered : ExpectedReply(history[i].event) = r})

\* a private and an addressed public message were answered
C9_Witness ==
    /\ loop = <<>>
    /\ Len(history) = 2
    /\ history[1].event = Private(TextEchoFoo)
    /\ history[2].event = Public(TextAddressedEchoFooBar)
    /\ said = << Reply("nobody", Foo), Reply("#chan", FooBar) >>

\* a message in a channel whose text does not address the bot
PlainPublic(event) ==
    /\ event.type = Message
    /\ event.channel # None
    /\ ~(\E c \in Separators : str_startswith(event.message, Append(event.nick, c)))

NoMessageListener ==
    \A i \in 1..Len(loaded_plugins) : listeners[loaded_plugins[i]][Message] = <<>>

\* C10: a public message that is not addressed to the bot is not read as a
\* command: PluginManager.fire builds no command event and schedules no
\* command task for it, with no listener on Message it schedules nothing,
\* and no reply is sent for it.
C10_PlainPublicNotCommand ==
    /\ ManagerFired /\ PlainPublic(call.event) =>
          /\ CommandTasks = {}
          /\ command_event = NoEvent
          /\ NoMessageListener => scheduled = <<>>
    /\ \A i \in 1..Len(history) : PlainPublic(history[i].event) =>
          /\ history[i].command_event = NoEvent
          /\ i \notin Answered
    /\ Len(said) <= Cardinality({i \in 1..Len(history) : ~PlainPublic(history[i].event)})

\* "echo foo" said in #chan with the echo command loaded and no listener
C10_Witness ==
    /\ ManagerFired
    /\ call.event = Public(TextEchoFoo)
    /\ EchoLoaded
    /\ NoMessageListener
    /\ scheduled = <<>>
    /\ loop = <<>>
    /\ said = <<>>

\* ------------------------------------------------------ per-channel data
\* Specification SpecChannel: the plugins echo and misc each register a
\* listener on Message that asks for data.per_channel(T); messages are said
\* in two channels and the loop runs the tasks in any order.
InChannel(channel, text) == MakeMessage(NICK, "nobody", channel, text)

ChannelEvents == {InChannel(ch, <<"h", "i">>) : ch \in {"#chan", "#other"}}

NextChannel ==
    \/ \E p \in PluginNames : Plugin(p)
    \/ \E p \in PluginNames :
          /\ p \in known_plugins
          /\ on_calls[p] = <<>>
          /\ on(p, Message, "touch")
    \/ \E p \in PluginNames : load(p)
    \/ \E e \in ChannelEvents : fire(e) /\ UNCHANGED history
    \/ \E i \in 1..Len(loop) : RunTask(i)

SpecChannel == Init /\ [][NextChannel]_vars

\* what the handlers got from data.per_channel(T)
Accesses == {o \in seen : o.op = "per_channel"}

\* C7: every access to data.per_channel(T) returns the same instance for the
\* same plugin and channel, which is the one the plugin's PluginData keeps
\* for that channel, and different instances for two channels of one plugin
\* and for two plugins on one channel.
C7_PerChannelIsolation ==
    /\ \A a \in Accesses, b \in Accesses :
          (a.plugin = b.plugin /\ a.channel = b.channel) <=> a.value = b.value
    /\ \A a \in Accesses :
          plugin_data[a.plugin].per_channel[a.channel][Slot] = a.value

\* both plugins were given their instance in both channels, echo twice in
\* #chan by the last fire
C7_Witness ==
    /\ Cardinality(Accesses) = 4
    /\ Cardinality({a.value : a \in Accesses}) = 4
    /\ ManagerFired
    /\ call.event.channel = "#chan"
    /\ Cardinality({j \in 1..Len(scheduled) : scheduled[j].plugin = ECHO}) = 2
    /\ loop = <<>>

\* ---------------------------------------------------------- general data
\* Specification SpecGeneral: echo registers a listener that stores what it
\* handles under data["k"] and then one that reads data["k"]; misc registers
\* them in the other order, so that its reader runs before its writer.
Body(plugin) == IF plugin = ECHO THEN <<"put", "get">> ELSE <<"get", "put">>

GeneralEvents == {InChannel("#chan", <<"a">>), Private(<<"b">>)}

NextGeneral ==
    \/ \E p \in PluginNames : Plugin(p)
    \/ \E p \in PluginNames :
          /\ p \in known_plugins
          /\ Len(on_calls[p]) < Len(Body(p))
          /\ on(p, Message, Body(p)[Len(on_calls[p]) + 1])
    \/ \E p \in PluginNames : load(p)
    \/ \E e \in GeneralEvents : fire(e) /\ UNCHANGED history
    \/ loop # <<>> /\ RunTask(1)

SpecGeneral == Init /\ [][NextGeneral]_vars

\* what the handlers read from data["k"]
Reads == {o \in seen : o.op = "getitem"}

Written(plugin, text) == [plugin |-> plugin, text |-> text]

\* one PluginData per plugin the manager has wrapped an event for; what it
\* holds under "k", and what a handler has read from "k", was written by a
\* handler of the same plugin
OwnDataOnly ==
    /\ DOMAIN plugin_data \subseteq known_plugins
    /\ ManagerFired => Range(loaded_plugins) \subseteq DOMAIN plugin_data
    /\ \A p \in DOMAIN plugin_data :
          Key \in DOMAIN plugin_data[p].general =>
              plugin_data[p].general[Key].plugin = p
    /\ \A o \in Reads : o.value.plugin = o.plugin

\* the PluginData of a plugin stays; its data["k"] changes only when a task
\* of the plugin writes it, to what that task wrote; a read of data["k"]
\* returns what the plugin's PluginData holds
RetainedStep ==
    /\ \A p \in DOMAIN plugin_data :
          /\ p \in DOMAIN plugin_data'
          /\ plugin_data'[p].general # plugin_data[p].general =>
                /\ loop # <<>>
                /\ loop[1].plugin = p
                /\ loop[1].coro = "put"
                /\ plugin_data'[p].general =
                      DictSet(plugin_data[p].general, Key,
                              Written(p, loop[1].event.event.message))
    /\ \A o \in (seen' \ seen) :
          o.op = "getitem" => o.value = plugin_data[o.plugin].general[Key]

\* C8: there is one PluginData per loaded plugin, kept across events: what a
\* handler of plugin P writes to data[key] stays there until a handler of P
\* writes it again, is what a handler of P reads from data[key] in any
\* later fire, and is never what a handler of another plugin reads.
C8_GeneralRetained == []OwnDataOnly /\ [][RetainedStep]_vars

\* misc, handling the private message, read what it wrote when it handled
\* the message in #chan, and echo has read its own
C8_Witness ==
    /\ [plugin |-> MISC, op |-> "getitem", channel |-> None,
         value |-> Written(MISC, <<"a">>)] \in seen
    /\ \E o \in Reads : o.plugin = ECHO
    /\ plugin_data[ECHO].general[Key] = Written(ECHO, <<"b">>)

\* ------------------------------------------------------------- loading
\* Specification SpecLoad: the modules of echo and misc each register a
\* listener on Load, then one on Message, and the global command shout;
\* plugins are loaded one by one or all at once, also before they are
\* defined, and messages are fired in between.
LoadBody == << [event_cls |-> Load, coro |-> "l"], [event_cls |-> Message, coro |-> "f"] >>

LoadEvents == {Private(TextShout), Public(TextShout), Private(TextEchoShout)}

NextLoad ==
    \/ \E p \in PluginNames : Plugin(p)
    \/ \E p \in PluginNames :
          /\ p \in known_plugins
          /\ Len(on_calls[p]) < Len(LoadBody)
          /\ on(p, LoadBody[Len(on_calls[p]) + 1].event_cls,
                   LoadBody[Len(on_calls[p]) + 1].coro)
    \/ \E p \in PluginNames : command(p, SHOUT, "g", TRUE)
    \/ \E p \in PluginNames : load(p)
    \/ \E o \in Orders : loadall(o)
    \/ \E e \in LoadEvents : fire(e) /\ UNCHANGED history
    \/ run_until_idle

SpecLoad == Init /\ [][NextLoad]_vars

\* ------------------------------------------------------ claims on loading
\* C11: no listener and no command of a plugin that is known but not in
\* loaded_plugins is scheduled by PluginManager.fire, whatever plugins were
\* defined and loaded before, and no task of such a plugin is in the loop.
C11_LoadedBeforeEvents ==
    /\ ManagerFired =>
          \A j \in 1..Len(scheduled) : scheduled[j].plugin \in Range(loaded_plugins)
    /\ \A j \in 1..Len(loop) : loop[j].plugin \in Range(loaded_plugins)

\* misc is loaded and got the message and the command; echo, which listens
\* on Message and has the command too, is known but not loaded
C11_Witness ==
    /\ ManagerFired
    /\ call.event = Private(TextShout)
    /\ ECHO \in known_plugins
    /\ ECHO \notin Range(loaded_plugins)
    /\ listeners[ECHO][Message] # <<>>
    /\ SHOUT \in DOMAIN commands[ECHO]
    /\ MISC \in Range(loaded_plugins)
    /\ Len(scheduled) = 2

\* what C12 asks of one step
LoadStep ==
    CallStep =>
    /\ call'.op = "load" /\ call'.plugin \in Range(loaded_plugins)
          => loaded_plugins' = loaded_plugins /\ raised' = None
    /\ call'.op = "load" /\ call'.plugin \notin known_plugins
          => loaded_plugins' = loaded_plugins /\ raised' = "KeyError"
    /\ call'.op = "loadall"
          => /\ Range(loaded_plugins') = known_plugins
             /\ Len(loaded_plugins') = Cardinality(known_plugins)
             /\ raised' = None
    /\ call'.op = "Plugin" /\ call'.plugin \in known_plugins
          => raised' = "NameError" /\ UNCHANGED registry

\* C12: load of a loaded plugin leaves loaded_plugins as it is; load of a
\* name that is not known raises KeyError and leaves loaded_plugins as it
\* is; after loadall the loaded names are the known names, each once; a
\* second definition of a name is rejected, and no load ever makes
\* loaded_plugins hold a name twice or a name that is not known.
C12_LoadIdempotent ==
    /\ [](/\ Range(loaded_plugins) \subseteq known_plugins
          /\ Cardinality(Range(loaded_plugins)) = Len(loaded_plugins))
    /\ [][LoadStep]_vars

\* with echo loaded, load of misc, which is not defined, has raised KeyError
C12_Witness ==
    /\ call.op = "load"
    /\ call.plugin = MISC
    /\ raised = "KeyError"
    /\ MISC \notin known_plugins
    /\ loaded_plugins = <<ECHO>>

\* C17 as stated: the load that adds a plugin to loaded_plugins schedules
\* each handler the plugin registered with on(Load) exactly once, and a
\* load that adds nothing schedules nothing.
C17_LoadFiresLoad ==
    [][CallStep /\ call'.op = "load" =>
         IF loaded_plugins' # loaded_plugins
         THEN /\ Len(scheduled') = Len(listeners[call'.plugin][Load])
              /\ \A j \in 1..Len(scheduled') :
                    /\ scheduled'[j].plugin = call'.plugin
                    /\ scheduled'[j].coro = listeners[call'.plugin][Load][j]
              /\ loop' = loop \o scheduled'
         ELSE scheduled' = <<>> /\ loop' = loop]_vars

\* ------------------------------------------------- claims on scheduling
\* a handler registered with on(cls) listens to events of class V: V is
\* cls or an ancestor of cls below Event
ListensTo(cls, V) ==
    \E i \in 1..Len(mro(cls)) :
        /\ mro(cls)[i] = V
        /\ \A j \in 1..i : mro(cls)[j] # Event

\* the coroutines registered on `plugin` that listen to V, in the order of
\* their registration
RegisteredFor(plugin, V) ==
    LET Listens(r) == ListensTo(r.event_cls, V)
        rs == SelectSeq(on_calls[plugin], Listens)
    IN  [i \in 1..Len(rs) |-> rs[i].coro]

\* what C13 asks of one step
FireAndForgetStep ==
    CallStep /\ call'.op \in {"Plugin.fire", "Plugin.fire_command"} =>
        /\ raised' = None
        /\ futures' = scheduled'
        /\ loop' = loop \o scheduled'
        /\ \A j \in 1..Len(scheduled') : scheduled'[j].pc = 0
        /\ said' = said
        /\ seen' = seen
        /\ \A p \in DOMAIN plugin_data : plugin_data'[p] = plugin_data[p]
        /\ call'.op = "Plugin.fire" =>
              [j \in 1..Len(scheduled') |-> scheduled'[j].coro]
                  = RegisteredFor(call'.plugin, call'.event.type)
        /\ call'.op = "Plugin.fire_command" => Len(scheduled') <= 1

\* C13: Plugin.fire and Plugin.fire_command return without raising, with one
\* handle per task they created, before any of those tasks has run a step
\* (the tasks are at their start, at the back of the loop, and nothing was
\* said or stored), and Plugin.fire creates the tasks in the order in which
\* the handlers were registered.
C13_FireAndForget == [][FireAndForgetStep]_vars

\* g, then f, were registered on Message; a Message was fired and both are
\* scheduled in that order, neither has run
C13_Witness ==
    /\ FiredOn(ECHO, Message)
    /\ on_calls[ECHO] = << [event_cls |-> Message, coro |-> "g"],
                           [event_cls |-> Message, coro |-> "f"] >>
    /\ Len(futures) = 2
    /\ futures[1].coro = "g"
    /\ futures[2].coro = "f"
    /\ loop = futures

\* ------------------------------------------------------ failing handlers
\* Specification SpecIsolation: the plugin echo registers a listener on
\* Message that raises, one that never completes, and the command echo;
\* messages that resolve to the command are fired, and the loop, which runs
\* for ever, runs the ready tasks first scheduled first.
IsolationBody == <<"raise", "hang">>

IsolationEvents == {Private(TextEchoFoo), Public(TextAddressedEchoFooBar)}

LoopStep == loop # <<>> /\ RunTask(1)

NextIsolation ==
    \/ Plugin(ECHO)
    \/ /\ ECHO \in known_plugins
       /\ Len(on_calls[ECHO]) < Len(IsolationBody)
       /\ on(ECHO, Message, IsolationBody[Len(on_calls[ECHO]) + 1])
    \/ command(ECHO, ECHO, "echo", TRUE)
    \/ load(ECHO)
    \/ \E e \in IsolationEvents : fire_recorded(e)
    \/ LoopStep

SpecIsolation == Init /\ [][NextIsolation]_vars /\ WF_vars(LoopStep)

\* the tasks of failing handlers scheduled by the fires in the history
Failing(coro) ==
    {i \in 1..Len(history) :
        \E j \in 1..Len(history[i].scheduled) : history[i].scheduled[j].coro = coro}

\* PluginManager.fire returned its handles, and what the client was told
\* and what the handles hold is what the tasks that ran account for
FailuresContained ==
    /\ ManagerFired => raised = None /\ futures = scheduled
    /\ \A i \in 1..Len(history) : history[i].raised = None
    /\ Len(said) <= Cardinality(Answered)
    /\ \A r \in Range(said) : \E i \in Answered : r = ExpectedReply(history[i].event)
    /\ \A h \in handles :
          \/ h.task.coro = "raise" /\ h.state = "exception"
          \/ h.task.coro = "hang" /\ h.state = "pending"

\* no task is ready, and every command fired has been answered
AllAnswered == loop = <<>> /\ Len(said) = Cardinality(Answered)

\* C14: with a handler that raises and one that never completes scheduled
\* for the same events, PluginManager.fire returns its handles without
\* raising, the failures show in the handles of those two handlers only,
\* and under a loop that keeps running ready tasks every other handler
\* scheduled, for the same or a later event, completes: again and again no
\* task is ready and every command fired has been answered.
C14_HandlerIsolation == []FailuresContained /\ []<>AllAnswered

\* two messages were fired with the raising and the hanging listener
\* scheduled for each; both failures are in the handles and both commands
\* were answered
C14_Witness ==
    /\ Len(history) = 2
    /\ Failing("raise") = {1, 2}
    /\ Failing("hang") = {1, 2}
    /\ Answered = {1, 2}
    /\ \E h \in handles : h.state = "exception"
    /\ \E h \in handles : h.state = "pending"
    /\ loop = <<>>
    /\ Len(said) = 2

\* ------------------------------------------------- claims on what fire raises
\* the plugin and the command a qualified command word names
Qualified(event) == str_rpartition(CommandWord(event), ".")

\* the plugin is not loaded, or it is and has no command of the bare name
Unresolved(event) ==
    \/ Qualified(event).head \notin Range(loaded_plugins)
    \/ Qualified(event).tail \notin DOMAIN commands[Qualified(event).head]

\* C15 as stated: for a command word with a '.', PluginManager.fire raises a
\* not-found error when the plugin named is not loaded and when it is loaded
\* but has no command of the bare name, and schedules no command task
\* (stated here for the command words that do name a plugin before the '.').
C15_QualifiedNotFound ==
    ManagerFired /\ ReadAsCommand(call.event)
    /\ LastIndex(CommandWord(call.event), ".") > 1
    /\ Unresolved(call.event)
    => raised # None /\ CommandTasks = {}

\* the text begins with the nickname followed at once by ':', ',' or ' '
AddressedText(event) ==
    \E c \in Separators : str_startswith(event.message, Append(event.nick, c))

\* C16 as stated: PluginManager.fire classifies every message without
\* raising, and reads a public message as a command exactly when its text
\* begins with the nickname followed by a separator; the nickname alone is
\* not addressed.
C16_ClassificationTotal ==
    ManagerFired /\ isinstance(call.event, Message) =>
        /\ raised # "IndexError"
        /\ call.event.channel # None =>
              (command_event # NoEvent <=> AddressedText(call.event))

\* C20 as stated: every task scheduled during a PluginManager.fire call has
\* its handle in the sequence the call returns, also when the call is for a
\* qualified command whose plugin is not loaded (stated here for the calls
\* that get past the classification of the message).
C20_HandlesDelivered ==
    ManagerFired /\ raised # "IndexError" => futures = scheduled

\* ------------------------------------------------------- counting handlers
\* Specification SpecCounter: the module of the plugin echo registers
\* listeners on Message that count under data["n"], with or without an await
\* between the read and the write; then the plugin is loaded, messages are
\* fired and the loop runs the ready tasks in any order.
CounterEvents == {Private(<<"h", "i">>)}

NextCounter ==
    \/ Plugin(ECHO)
    \/ \E f \in {"bump", "slow"} :
          /\ ECHO \notin Range(loaded_plugins)
          /\ on(ECHO, Message, f)
    \/ load(ECHO)
    \/ \E e \in CounterEvents : fire_recorded(e)
    \/ \E i \in 1..Len(loop) : RunTask(i)

SpecCounter == Init /\ [][NextCounter]_vars

\* how many tasks of the coroutine the fires in the history scheduled
RECURSIVE Scheduled(_, _)
Scheduled(coro, n) ==
    IF n = 0 THEN 0
    ELSE Scheduled(coro, n - 1)
         + Cardinality({j \in 1..Len(history[n].scheduled) :
                            history[n].scheduled[j].coro = coro})

\* the count echo holds
Counted ==
    IF ECHO \in DOMAIN plugin_data /\ CountKey \in DOMAIN plugin_data[ECHO].general
    THEN plugin_data[ECHO].general[CountKey]
    ELSE 0

\* C18: once all tasks have run, the count is the number of handlers that
\* ran when none of them awaits between its read and its write (no update
\* is lost); with handlers that await in between the count is at least one
\* and at most their number, and two of them scheduled together lose an
\* update (the witness).
C18_AtomicBetweenAwaits ==
    LET B == Scheduled("bump", Len(history))
        S == Scheduled("slow", Len(history))
    IN  loop = <<>> =>
          /\ S = 0 => Counted = B
          /\ Counted <= B + S
          /\ B + S > 0 => Counted >= 1

\* one fire scheduled two handlers that await between read and write; both
\* have run to their end and the count is one
C18_Witness ==
    /\ Len(history) = 1
    /\ Scheduled("slow", 1) = 2
    /\ Scheduled("bump", 1) = 0
    /\ loop = <<>>
    /\ Counted = 1

\* ------------------------------------------------------- deleting a key
\* Specification SpecDelete: the module of the plugin echo registers
\* listeners on Message that write data["k"], count under data["n"], read
\* data["k"] and delete data["k"]; then the plugin is loaded, messages are
\* fired and the loop runs the ready tasks first scheduled first.
NextDelete ==
    \/ Plugin(ECHO)
    \/ \E f \in {"put", "bump", "get", "del"} :
          /\ ECHO \notin Range(loaded_plugins)
          /\ on(ECHO, Message, f)
    \/ load(ECHO)
    \/ \E e \in CounterEvents : fire_recorded(e)
    \/ LoopStep

SpecDelete == Init /\ [][NextDelete]_vars

\* this step runs a task that does del data["k"]
DelStep == ~CallStep /\ loop # <<>> /\ loop[1].coro = "del" /\ loop' = Tail(loop)

\* C19 as stated: del data[key] takes that key, and nothing else, out of
\* the general mapping of the plugin: the other keys keep their values, the
\* per-channel mapping is as it was, and the general mapping is still there
\* for later reads and writes.
C19_DeletesOnlyKey ==
    [][DelStep =>
         LET p == loop[1].plugin IN
         /\ "general" \in DOMAIN plugin_data'[p]
         /\ "general" \in DOMAIN plugin_data[p] =>
               plugin_data'[p].general =
                   [k \in (DOMAIN plugin_data[p].general) \ {Key} |->
                       plugin_data[p].general[k]]
         /\ plugin_data'[p].per_channel = plugin_data[p].per_channel]_vars
====
